---- MODULE Spec2Model ----
(***************************************************************************)
(* Model of src/terrain_cleanup.py: a Blender script that casts one ray    *)
(* per face of the active mesh against a BVH tree built once from the mesh *)
(* and deletes every face whose ray hits the tree (or, in debug mode,      *)
(* selects the faces hit by the rays of the selected faces).               *)
(*                                                                         *)
(* Meshes are built from horizontal quads placed on a grid of slots        *)
(* <<column, layer>>.  All lengths are in tenths of a Blender unit: a quad *)
(* is 20 x 20, layers are 30 apart.  The object's matrix_world is the      *)
(* identity, so "v @ mat" and "mat @ v" leave v unchanged.                 *)
(***************************************************************************)
EXTENDS Integers, Sequences, FiniteSets

VARIABLES
    MODE,           \* line 34 (setting)
    RAY_LENGTH,     \* line 35 (setting), in tenths
    DEBUG,          \* line 37 (setting)
    DEBUG_OBJECTS,  \* line 38 (setting)
    geom,           \* face index -> [slot, up]: geometry of mesh.polygons when the script starts
    faces,          \* indices of the faces present in the mesh (bm.faces)
    verts,          \* vertices present in the mesh
    edges,          \* edges present in the mesh (each a set of two vertices)
    select,         \* indices of the faces whose select flag is set
    debug_faces,    \* line 69
    to_select,      \* line 79
    to_create,      \* line 80
    count_faces,    \* line 84
    my_tree0,       \* line 87: slot -> indices of the faces the tree holds there
    i,              \* line 93
    deleted,        \* line 94
    k,              \* position of the loop of line 159 in to_create
    commands,       \* primitives added by lines 160-163 during this run
    pc,             \* position of the script
    err,            \* the exception that ended the script, "" if none
    casts,          \* number of my_tree0.ray_cast calls of this run
    run,            \* number of the current execution of the script
    first           \* what the previous execution left: its debug_faces and to_select

vars == <<MODE, RAY_LENGTH, DEBUG, DEBUG_OBJECTS, geom, faces, verts, edges, select,
          debug_faces, to_select, to_create, count_faces, my_tree0, i, deleted, k,
          commands, pc, err, casts, run, first>>

settings == <<MODE, RAY_LENGTH, DEBUG, DEBUG_OBJECTS, geom>>

(***************************************************************************)
(* Bounds of the small meshes                                              *)
(***************************************************************************)
MaxFaces == 3
MaxLayer == 2

\* the places a quad can take: a stack above the origin and one ground quad beside it
Layers == 0..MaxLayer
Slots == ({0} \X Layers) \cup {<<1, 0>>}

None == <<>>
NoHit == [r_pos |-> None, p_i |-> None, p_dist |-> None]
NoTree == [s \in {} |-> {}]
NoRun == [watched |-> {}, selected |-> {}]

ToSet(seq) == {seq[n] : n \in 1..Len(seq)}

(***************************************************************************)
(* Geometry of a quad                                                      *)
(***************************************************************************)
Corners(s) ==
    << <<20 * s[1],      0,  30 * s[2]>>,
       <<20 * s[1] + 20, 0,  30 * s[2]>>,
       <<20 * s[1] + 20, 20, 30 * s[2]>>,
       <<20 * s[1],      20, 30 * s[2]>> >>

FaceVerts(s) == ToSet(Corners(s))

FaceEdges(s) ==
    LET c == Corners(s)
    IN  {{c[1], c[2]}, {c[2], c[3]}, {c[3], c[4]}, {c[4], c[1]}}

\* BMFace.calc_center_median(): the mean of the face's vertices
calc_center_median(s) ==
    LET c == Corners(s)
    IN  << (c[1][1] + c[2][1] + c[3][1] + c[4][1]) \div 4,
           (c[1][2] + c[2][2] + c[3][2] + c[4][2]) \div 4,
           (c[1][3] + c[2][3] + c[3][3] + c[4][3]) \div 4 >>

\* BMFace.normal of a horizontal quad, normalised: up or down by its winding
normal(g) == IF g.up THEN <<0, 0, 10>> ELSE <<0, 0, -10>>

Add(a, b) == <<a[1] + b[1], a[2] + b[2], a[3] + b[3]>>
Tenth(a) == <<a[1] \div 10, a[2] \div 10, a[3] \div 10>>

\* lines 40-48
vert_offset == IF MODE = "VERTICAL" THEN <<0, 0, 50>> ELSE None
vert_vector == IF MODE = "VERTICAL" THEN <<0, 0, 10>> ELSE None

\* lines 109-116: the origin and the direction of the ray of a face
RayOrigin(g) ==
    IF MODE = "NORMAL"
    THEN Add(calc_center_median(g.slot), Tenth(normal(g)))
    ELSE Add(calc_center_median(g.slot), vert_offset)

RayDirection(g) == IF MODE = "NORMAL" THEN normal(g) ELSE vert_vector

(***************************************************************************)
(* The BVH tree                                                            *)
(***************************************************************************)
\* BVHTree.FromBMesh: a snapshot of the faces, organised by place
FromBMesh(fs) == [s \in Slots |-> {f \in fs : geom[f].slot = s}]

\* signed distance along the vertical direction nor from pos to the plane of slot s
Along(s, pos, nor) == ((30 * s[2] - pos[3]) * nor[3]) \div 10

\* the slots whose quad the vertical ray (pos, nor) crosses within dist and that hold a face
Crossed(tree, pos, nor, dist) ==
    {s \in DOMAIN tree :
        /\ tree[s] # {}
        /\ 20 * s[1] < pos[1] /\ pos[1] < 20 * s[1] + 20
        /\ 0 < pos[2] /\ pos[2] < 20
        /\ Along(s, pos, nor) >= 0
        /\ Along(s, pos, nor) <= dist}

\* variant of ray_cast that ignores the distance limit
RayCastNoLimit(tree, pos, nor, dist) ==
    LET cr == Crossed(tree, pos, nor, 30 * (MaxLayer + 1) + 100)
    IN  IF cr = {} THEN {NoHit}
        ELSE LET s == CHOOSE t \in cr : \A u \in cr : Along(t, pos, nor) <= Along(u, pos, nor)
             IN  {[r_pos |-> <<pos[1], pos[2], 30 * s[2]>>, p_i |-> f, p_dist |-> Along(s, pos, nor)]
                    : f \in tree[s]}

\* BVHTree.ray_cast: the results the nearest hit within dist can have (any of the
\* faces lying at the nearest crossed place), {NoHit} when there is no hit
ray_cast(tree, pos, nor, dist) ==
    LET cr == Crossed(tree, pos, nor, dist)
    IN  IF cr = {} THEN {NoHit}
        ELSE LET s == CHOOSE t \in cr : \A u \in cr : Along(t, pos, nor) <= Along(u, pos, nor)
             IN  {[r_pos |-> <<pos[1], pos[2], 30 * s[2]>>, p_i |-> f, p_dist |-> Along(s, pos, nor)]
                    : f \in tree[s]}

(***************************************************************************)
(* Steps of the script                                                     *)
(***************************************************************************)
\* variant of TooManyFaces that raises for every count that is not logged
TooManyFacesFrom100(n) == ~(n < 100)

\* lines 73-76: the sanity check on the number of selected faces
TooManyFaces(n) == ~(n < 100) /\ n > 10000

\* variant of Records without the test on debug_faces
RecordsAlways(f) == DEBUG /\ DEBUG_OBJECTS

\* line 122: whether the ray of face f is recorded for the debug objects
Records(f) == DEBUG /\ DEBUG_OBJECTS /\ f \in debug_faces

\* variants of Removes: without the test on the hit, without the test on DEBUG
RemovesAlways(h) == ~DEBUG

RemovesInDebug(h) == h.r_pos # None

\* lines 124-126: whether the face whose ray returned h is removed
Removes(h) == h.r_pos # None /\ ~DEBUG

\* variant of Selects without the test on debug_faces
SelectsUnwatched(f, h) == h.r_pos # None /\ DEBUG

\* lines 128-132: whether the face hit by the ray of face f is recorded for selection
Selects(f, h) == h.r_pos # None /\ DEBUG /\ f \in debug_faces

\* variant of SelectAll that clears the other select flags
SelectOnly(sel, rec) == ToSet(rec)

\* lines 142-143: the select flags after the recorded faces are selected
SelectAll(sel, rec) == sel \cup ToSet(rec)

\* variant of delete_loose that deletes the loose vertices before the wire edges
DeleteLooseVertsFirst(fs, vs, es) ==
    LET used == UNION {FaceEdges(geom[f].slot) : f \in fs}
    IN  [verts |-> {v \in vs : \E e \in es : v \in e}, edges |-> es \cap used]

\* bpy.ops.mesh.delete_loose() with everything selected: the wire edges go first,
\* then the vertices left without an edge; faces stay
delete_loose(fs, vs, es) ==
    LET used == UNION {FaceEdges(geom[f].slot) : f \in fs}
        es2 == es \cap used
    IN  [verts |-> vs \cap UNION es2, edges |-> es2]

\* variant of TooManyObjects that raises from 20 entries on
TooManyObjectsFrom20(n) == n >= 20

\* lines 157-158: the cap on the number of debug objects
TooManyObjects(n) == n > 20

\* lines 160-163: the primitives added for one entry of to_create
Create(m) ==
    << [op |-> "primitive_cube_add", location |-> m[1]],
       [op |-> "primitive_ico_sphere_add", location |-> m[2]] >>
    \o (IF m[3] # None
        THEN << [op |-> "primitive_torus_add", location |-> m[3]] >>
        ELSE << >>)

\* lines 59-100: find the selected faces (debug mode), build the tree
Setup ==
    /\ pc = "start"
    /\ LET sel == IF DEBUG THEN faces \cap select ELSE {}
       IN  /\ debug_faces' = sel
           /\ IF DEBUG /\ TooManyFaces(Cardinality(sel))
              THEN /\ pc' = "error"
                   /\ err' = "ValueError"
                   /\ UNCHANGED <<count_faces, my_tree0>>
              ELSE /\ pc' = "loop"
                   /\ err' = ""
                   /\ count_faces' = Cardinality(faces)
                   /\ my_tree0' = FromBMesh(faces)
    /\ to_select' = << >>
    /\ to_create' = << >>
    /\ i' = 0
    /\ deleted' = 0
    /\ UNCHANGED <<settings, faces, verts, edges, select, k, commands, casts, run, first>>

\* lines 103-135: one pass of the loop over bm.faces, for the face of index i
Classify ==
    /\ pc = "loop"
    /\ i < count_faces
    /\ i' = i + 1
    /\ IF MODE \notin {"NORMAL", "VERTICAL"}
       THEN /\ pc' = "error"
            /\ err' = "TypeError"
            /\ UNCHANGED <<faces, to_select, to_create, deleted, casts>>
       ELSE LET face == i
                pos == RayOrigin(geom[face])
                nor == RayDirection(geom[face])
            IN  \E h \in ray_cast(my_tree0, pos, nor, RAY_LENGTH) :
                    /\ casts' = casts + 1
                    /\ to_create' = IF Records(face)
                                    THEN Append(to_create, <<pos, Add(pos, nor), h.r_pos>>)
                                    ELSE to_create
                    /\ faces' = IF Removes(h) THEN faces \ {face} ELSE faces
                    /\ deleted' = IF Removes(h) THEN deleted + 1 ELSE deleted
                    /\ to_select' = IF Selects(face, h)
                                    THEN Append(to_select, h.p_i)
                                    ELSE to_select
                    /\ UNCHANGED <<pc, err>>
    /\ UNCHANGED <<settings, verts, edges, select, debug_faces, count_faces, my_tree0, k,
                   commands, run, first>>

\* lines 137-144: after the loop, select the recorded faces (debug mode)
Select ==
    /\ pc = "loop"
    /\ i = count_faces
    /\ select' = IF DEBUG /\ Len(to_select) # 0 THEN SelectAll(select, to_select) ELSE select
    /\ pc' = "update"
    /\ UNCHANGED <<settings, faces, verts, edges, debug_faces, to_select, to_create,
                   count_faces, my_tree0, i, deleted, k, commands, err, casts, run, first>>

\* lines 146-150: write the bmesh back; outside debug mode select everything and delete
\* the loose vertices and edges
Update ==
    /\ pc = "update"
    /\ IF ~DEBUG
       THEN LET m == delete_loose(faces, verts, edges)
            IN  /\ select' = faces
                /\ verts' = m.verts
                /\ edges' = m.edges
       ELSE UNCHANGED <<select, verts, edges>>
    /\ pc' = IF DEBUG_OBJECTS THEN "objects" ELSE "done"
    /\ UNCHANGED <<settings, faces, debug_faces, to_select, to_create, count_faces,
                   my_tree0, i, deleted, k, commands, err, casts, run, first>>

\* lines 151-158: switch to object mode and check the number of debug objects
Objects ==
    /\ pc = "objects"
    /\ IF DEBUG /\ TooManyObjects(Len(to_create))
       THEN pc' = "error" /\ err' = "RuntimeError"
       ELSE pc' = "create" /\ err' = err
    /\ k' = 1
    /\ UNCHANGED <<settings, faces, verts, edges, select, debug_faces, to_select,
                   to_create, count_faces, my_tree0, i, deleted, commands, casts, run, first>>

\* lines 159-163: one pass of the loop over to_create
CreateObject ==
    /\ pc = "create"
    /\ DEBUG
    /\ k <= Len(to_create)
    /\ commands' = commands \o Create(to_create[k])
    /\ k' = k + 1
    /\ UNCHANGED <<settings, faces, verts, edges, select, debug_faces, to_select,
                   to_create, count_faces, my_tree0, i, deleted, pc, err, casts, run, first>>

\* line 164
Completed ==
    /\ pc = "create"
    /\ ~DEBUG \/ k > Len(to_create)
    /\ pc' = "done"
    /\ UNCHANGED <<settings, faces, verts, edges, select, debug_faces, to_select,
                   to_create, count_faces, my_tree0, i, deleted, k, commands, err, casts,
                   run, first>>

\* The script is run a second time on the same object after a debug run that
\* completed (a debug run leaves the faces and their indices as they were) and that
\* left edit mode at line 153, so that the select flags set at line 143 are the
\* flags of mesh.polygons the second run reads at line 71.
RunAgain ==
    /\ pc = "done"
    /\ DEBUG
    /\ DEBUG_OBJECTS
    /\ run = 1
    /\ run' = run + 1
    /\ first' = [watched |-> debug_faces, selected |-> ToSet(to_select)]
    /\ pc' = "start"
    /\ debug_faces' = {}
    /\ to_select' = << >>
    /\ to_create' = << >>
    /\ count_faces' = 0
    /\ my_tree0' = NoTree
    /\ i' = 0
    /\ deleted' = 0
    /\ k' = 0
    /\ commands' = << >>
    /\ casts' = 0
    /\ UNCHANGED <<settings, faces, verts, edges, select, err>>

(***************************************************************************)
(* Initial states                                                          *)
(***************************************************************************)
\* a vertex without an edge and an edge without a face, present before the run
LooseVert == <<-20, 0, 0>>
LooseEdge == {<<0, 0, 0>>, <<0, -20, 0>>}

Modes == {"NORMAL", "VERTICAL", "SPHERICAL"}
RayLengths == {40, 4000}

Fresh ==
    /\ debug_faces = {}
    /\ to_select = << >>
    /\ to_create = << >>
    /\ count_faces = 0
    /\ my_tree0 = NoTree
    /\ i = 0
    /\ deleted = 0
    /\ k = 0
    /\ commands = << >>
    /\ pc = "start"
    /\ err = ""
    /\ casts = 0
    /\ run = 1
    /\ first = NoRun

\* the vertices and the edges of a mesh of quads, with or without the loose elements
MeshVerts(g, loose) ==
    UNION {FaceVerts(g[f].slot) : f \in DOMAIN g}
        \cup (IF loose THEN {LooseVert} \cup LooseEdge ELSE {})

MeshEdges(g, loose) ==
    UNION {FaceEdges(g[f].slot) : f \in DOMAIN g}
        \cup (IF loose THEN {LooseEdge} ELSE {})

\* Every mesh of at most MaxFaces quads at distinct slots, in every index order, under
\* every setting.  Each input varies where the script reads it: the windings in mode
\* NORMAL and the select flags in debug mode; the shared and the loose vertices and
\* edges outside debug mode, where delete_loose reads them (a debug run starts with a
\* stack of quads and the loose elements).
Init ==
    /\ MODE \in Modes
    /\ RAY_LENGTH \in RayLengths
    /\ DEBUG \in BOOLEAN
    /\ DEBUG_OBJECTS \in BOOLEAN
    /\ \E n \in 0..MaxFaces :
         /\ geom \in [0..(n - 1) -> [slot : Slots, up : BOOLEAN]]
         /\ \A a, b \in 0..(n - 1) : a # b => geom[a].slot # geom[b].slot
         /\ MODE # "NORMAL" => \A a \in 0..(n - 1) : geom[a].up
         /\ DEBUG => \A a \in 0..(n - 1) : geom[a].slot[1] = 0
         /\ faces = 0..(n - 1)
         /\ select \in SUBSET (0..(n - 1))
         /\ ~DEBUG => select = {}
    /\ \E loose \in BOOLEAN :
         /\ DEBUG => loose
         /\ verts = MeshVerts(geom, loose)
         /\ edges = MeshEdges(geom, loose)
    /\ Fresh

Next ==
    \/ Setup
    \/ Classify
    \/ Select
    \/ Update
    \/ Objects
    \/ CreateObject
    \/ Completed
    \/ RunAgain

Spec == Init /\ [][Next]_vars

(***************************************************************************)
(* Large meshes, for the caps on the selected faces and the debug objects  *)
(***************************************************************************)
\* n coincident ground quads (a quad duplicated in place), under one roof quad if roofed:
\* the vertical ray of every ground quad then hits the roof, which has the last index
Pile(n, roofed) ==
    [f \in 0..(IF roofed THEN n ELSE n - 1) |->
        [slot |-> IF f < n THEN <<0, 0>> ELSE <<0, 2>>, up |-> TRUE]]

InitLarge ==
    /\ MODE = "VERTICAL"
    /\ RAY_LENGTH = 4000
    /\ DEBUG \in BOOLEAN
    /\ \/ /\ DEBUG_OBJECTS \in BOOLEAN
          /\ geom = Pile(22, TRUE)
          /\ select \in {{}, (0..18) \cup {22}, 0..20, 0..22}
       \/ /\ DEBUG_OBJECTS = FALSE
          /\ geom = Pile(10001, FALSE)
          /\ select \in {0..9999, 0..10000}
    /\ faces = DOMAIN geom
    /\ verts = MeshVerts(geom, FALSE)
    /\ edges = MeshEdges(geom, FALSE)
    /\ Fresh

NextLarge ==
    \/ Setup
    \/ Classify
    \/ Select
    \/ Update
    \/ Objects
    \/ CreateObject
    \/ Completed

SpecLarge == InitLarge /\ [][NextLarge]_vars

(***************************************************************************)
(* What the rays of the mesh as it is when the script starts hit, stated   *)
(* from the geometry alone                                                 *)
(***************************************************************************)
AllFaces == DOMAIN geom
ValidMode == MODE \in {"NORMAL", "VERTICAL"}
AfterLoop == pc \in {"update", "objects", "create", "done"} \/ err = "RuntimeError"
AfterUpdate == pc \in {"objects", "create", "done"} \/ err = "RuntimeError"

\* how far above the start of the ray of face f the quad of face g lies, along the ray
Ahead(f, g) ==
    LET zf == 30 * geom[f].slot[2]
        zg == 30 * geom[g].slot[2]
    IN  IF MODE = "VERTICAL" THEN zg - (zf + 50)
        ELSE IF geom[f].up THEN zg - (zf + 1)
        ELSE (zf - 1) - zg

Blocks(g, f) ==
    /\ geom[g].slot[1] = geom[f].slot[1]
    /\ Ahead(f, g) >= 0
    /\ Ahead(f, g) <= RAY_LENGTH

\* the faces whose ray hits some face of the initial mesh within RAY_LENGTH
Buried == {f \in AllFaces : \E g \in AllFaces : Blocks(g, f)}

\* the faces a ray of face f can report as hit: the nearest ones that block it
HitBy(f) ==
    {g \in AllFaces : Blocks(g, f) /\ \A h \in AllFaces : Blocks(h, f) => Ahead(f, g) <= Ahead(f, h)}

(***************************************************************************)
(* C1: in debug mode the faces, vertices and edges of the mesh stay        *)
(* exactly as they were when the script started, at every point of the run *)
(* (a debug run starts with the loose vertex and edge present).            *)
(***************************************************************************)
C1_DebugLeavesMesh ==
    DEBUG => /\ faces = AllFaces
             /\ verts = MeshVerts(geom, TRUE)
             /\ edges = MeshEdges(geom, TRUE)

\* a debug run that reached its end, in which some ray hit
C1_Witness ==
    /\ DEBUG
    /\ pc = "done"
    /\ Buried # {}
    /\ to_select # << >>

(***************************************************************************)
(* C2: outside debug mode the faces removed so far are exactly the buried  *)
(* faces among those the loop has passed, whatever the index order, so at  *)
(* the end the faces left are the initial faces minus the buried ones; a   *)
(* face removed earlier still blocks the rays cast later.                  *)
(***************************************************************************)
C2_RemovedAreBuried ==
    (~DEBUG /\ ValidMode) =>
        /\ faces = AllFaces \ {f \in Buried : f < i}
        /\ deleted = Cardinality(AllFaces \ faces)
        /\ AfterLoop => faces = AllFaces \ Buried

\* a finished run that removed a face g and later a face f that only g blocked,
\* and kept another face
C2_Witness ==
    /\ ~DEBUG
    /\ pc = "done"
    /\ faces # {}
    /\ \E f, g \in AllFaces \ faces : g < f /\ \A h \in AllFaces : Blocks(h, f) <=> h = g

(***************************************************************************)
(* C3 as claimed: no face is removed before the ray of the last face has   *)
(* been cast, that is, while the loop still has faces to pass the mesh has *)
(* all its faces.                                                          *)
(***************************************************************************)
C3_Claimed ==
    (pc = "loop" /\ i < count_faces) => faces = AllFaces

(***************************************************************************)
(* C3 as amended: the tree is built once and never changes during a run;   *)
(* a face is removed only by the loop step that casts its own ray and      *)
(* finds a hit; vertices and edges change only after the loop has passed   *)
(* the last face.                                                          *)
(***************************************************************************)
C3_RemovedInLoop ==
    [][ /\ (pc # "start" /\ pc' # "start") => my_tree0' = my_tree0
        /\ faces' # faces => /\ pc = "loop"
                             /\ i \in Buried
                             /\ faces' = faces \ {i}
                             /\ casts' = casts + 1
                             /\ i' = i + 1
        /\ (verts' # verts \/ edges' # edges) => (pc = "update" /\ i = count_faces)
      ]_vars

\* a face has been removed while the loop still has faces to pass
C3_Witness ==
    /\ pc = "loop"
    /\ i < count_faces
    /\ faces # AllFaces
    /\ i \in faces

(***************************************************************************)
(* C4: outside debug mode, once the cleanup has run, the faces are the     *)
(* initial faces minus the buried ones and the vertices and edges are      *)
(* exactly those of the faces that are left.                               *)
(***************************************************************************)
C4_CompactedMesh ==
    (~DEBUG /\ AfterUpdate) =>
        /\ faces = AllFaces \ Buried
        /\ verts = UNION {FaceVerts(geom[f].slot) : f \in faces}
        /\ edges = UNION {FaceEdges(geom[f].slot) : f \in faces}

\* a finished run that removed a face sharing an edge with a face it kept
C4_Witness ==
    /\ ~DEBUG
    /\ pc = "done"
    /\ \E f \in faces, g \in AllFaces \ faces :
           FaceEdges(geom[f].slot) \cap FaceEdges(geom[g].slot) # {}

C6_SelectsHitsOfWatched ==
    (DEBUG /\ ValidMode) =>
        /\ ToSet(to_select) = UNION {HitBy(f) : f \in {w \in debug_faces : w < i}}
        /\ ToSet(to_select) \subseteq faces
        /\ select = IF AfterLoop THEN debug_faces \cup ToSet(to_select)
                    ELSE IF pc = "start" THEN select
                    ELSE debug_faces

\* a finished debug run with a watched face whose ray hit and an unwatched face whose
\* ray hit a face that stays unselected
C6_Witness ==
    /\ DEBUG
    /\ pc = "done"
    /\ \E w \in debug_faces : HitBy(w) # {}
    /\ \E u \in AllFaces \ debug_faces : HitBy(u) # {} /\ HitBy(u) \cap select = {}

(***************************************************************************)
(* C7: the script ends with the ValueError of line 76 only in debug mode   *)
(* with more than 10000 selected faces, and then before any ray is cast,   *)
(* with every face in place and the selection as it was; a debug run with  *)
(* more than 10000 selected faces never enters the loop.                   *)
(***************************************************************************)
C7_TooManyDebugFaces ==
    /\ err = "ValueError" =>
          /\ DEBUG
          /\ pc = "error"
          /\ Cardinality(debug_faces) > 10000
          /\ casts = 0
          /\ faces = AllFaces
          /\ select = debug_faces
          /\ to_select = << >>
    /\ (DEBUG /\ pc = "loop" /\ i = 0) => Cardinality(debug_faces) <= 10000

\* the run was aborted by the ValueError
C7_Witness ==
    /\ err = "ValueError"
    /\ pc = "error"
    /\ casts = 0

(***************************************************************************)
(* C8: the RuntimeError of line 158 is raised only in debug mode with      *)
(* debug objects and more than 20 entries in to_create, after the loop has *)
(* passed every face and the selection has been applied, and with no       *)
(* primitive added; with at most 20 entries a finished run has added the   *)
(* primitives of every entry, the torus only where there was a hit.        *)
(***************************************************************************)
RECURSIVE Primitives(_)
Primitives(ms) ==
    IF ms = << >> THEN << >>
    ELSE LET m == Head(ms)
         IN  (IF m[3] = None
              THEN << [op |-> "primitive_cube_add", location |-> m[1]],
                      [op |-> "primitive_ico_sphere_add", location |-> m[2]] >>
              ELSE << [op |-> "primitive_cube_add", location |-> m[1]],
                      [op |-> "primitive_ico_sphere_add", location |-> m[2]],
                      [op |-> "primitive_torus_add", location |-> m[3]] >>)
             \o Primitives(Tail(ms))

C8_AllOrNothing ==
    /\ err = "RuntimeError" =>
          /\ DEBUG /\ DEBUG_OBJECTS
          /\ Len(to_create) > 20
          /\ commands = << >>
          /\ i = count_faces
          /\ select = debug_faces \cup ToSet(to_select)
    /\ (DEBUG /\ DEBUG_OBJECTS /\ Len(to_create) > 20) => pc \notin {"create", "done"}
    /\ (DEBUG /\ DEBUG_OBJECTS /\ pc = "done") => commands = Primitives(to_create)
    /\ ~(DEBUG /\ DEBUG_OBJECTS) => commands = << >>

\* the run ended with the RuntimeError after it had selected the faces hit
C8_Witness ==
    /\ err = "RuntimeError"
    /\ to_select # << >>
    /\ ToSet(to_select) \subseteq select

(***************************************************************************)
(* C9: with a mode other than NORMAL and VERTICAL the run fails before any *)
(* ray is cast: it never gets past the loop, casts no ray and removes no   *)
(* face, on every mesh.                                                    *)
(***************************************************************************)
C9_Claimed ==
    ~ValidMode =>
        /\ pc \in {"start", "loop", "error"}
        /\ casts = 0
        /\ faces = AllFaces

(***************************************************************************)
(* C10 as claimed: every entry of to_create belongs to a watched face      *)
(* whose ray registered a hit, so every entry carries a hit point.         *)
(***************************************************************************)
C10_Claimed ==
    \A n \in 1..Len(to_create) : to_create[n][3] # None

(***************************************************************************)
(* C10 as amended: with debug and debug objects on, to_create holds one    *)
(* entry (ray origin, origin plus direction, hit point or None) for every  *)
(* watched face the loop has passed, hit or not, and none for any other    *)
(* face; with either setting off it stays empty.                           *)
(***************************************************************************)
MarkerOf(f) ==
    LET pos == RayOrigin(geom[f])
    IN  <<pos, Add(pos, RayDirection(geom[f])),
          IF f \in Buried
          THEN <<pos[1], pos[2], 30 * geom[CHOOSE g \in HitBy(f) : TRUE].slot[2]>>
          ELSE None>>

C10_OneMarkerPerWatched ==
    /\ ~(DEBUG /\ DEBUG_OBJECTS) => to_create = << >>
    /\ (DEBUG /\ DEBUG_OBJECTS /\ ValidMode) =>
          /\ Len(to_create) = Cardinality({w \in debug_faces : w < i})
          /\ ToSet(to_create) = {MarkerOf(w) : w \in {v \in debug_faces : v < i}}

\* a finished run with an entry without hit point, an entry with one, and an unwatched face
C10_Witness ==
    /\ DEBUG /\ DEBUG_OBJECTS
    /\ pc = "done"
    /\ \E n \in 1..Len(to_create) : to_create[n][3] = None
    /\ \E n \in 1..Len(to_create) : to_create[n][3] # None
    /\ AllFaces \ debug_faces # {}

====
